---- MODULE Spec2Model ----
(***************************************************************************)
(* SocketStream (packages/polling/src/socketstream.ts): a web socket       *)
(* wrapped in a Stream, reconnected by an internal Poll.                   *)
(*                                                                         *)
(* The stream's own code (constructor, isDisposed, dispose, send,          *)
(* reconnect) is translated from socketstream.ts.  Poll ('.') and          *)
(* Signal/Stream (@lumino/signaling) are collaborators whose code is not   *)
(* in socketstream.ts; they are modelled from their contract (Poller,      *)
(* MessageBus).  The WebSocket and the connector are the environment.      *)
(*                                                                         *)
(* JavaScript runs every handler to completion, so each action is one      *)
(* whole handler.  The handlers are written as operators over a record of  *)
(* the state (Cur), applied in the order of the statements of the source.  *)
(***************************************************************************)
EXTENDS Integers, Sequences, FiniteSets, TLC

\* The bound of the model: the number of external events in a run.  An external
\* event is a call by the owner (send, dispose, connect or disconnect a
\* listener, start iterating), an event raised by a socket (close, message) or
\* a connector() call that throws.  The Poller's own steps and the resumption of
\* the iterator are not counted: the external events bound them.
MaxEvents == 5

\* Every attempt after the first follows a close event or a throw, and one more
\* may run after disposal.
Attempts == 1..(MaxEvents + 2)
\* The socket created by attempt k is socket k; 0 is the null reference.
Sockets == Attempts
\* The n-th listener to connect is listener n.
ListenerIds == 1..MaxEvents

\* A socket whose four callback slots are null.  onclose holds 0 (null) or the
\* attempt k whose promise the installed closure rejects.
NullSlots == [onopen |-> "null", onclose |-> 0, onerror |-> "null", onmessage |-> "null"]

VARIABLES
  onmessage,     \* this.onmessage: "null", "emit" (hook emits), "dispose" (hook emits, then disposes)
  socket,        \* this.socket: 0 (null) or a socket
  pollDisposed,  \* this.connection.isDisposed
  tick,          \* Poller: "scheduled" (will invoke the factory), "inflight", "idle"
  nAttempts,     \* reconnect() invocations so far
  promise,       \* promise[k] of attempt k: "none", "pending", "rejected", "resolved"
  factoryCalls,  \* connector() invocations so far
  nThrows,       \* connector() invocations that threw
  created,       \* created[t]: the connector returned socket t
  slots,         \* slots[t]: the four callback slots of socket t
  closeCalls,    \* closeCalls[t]: close() invocations on socket t
  closeFired,    \* closeFired[t]: socket t has raised its close event
  closeSnap,     \* what the socket saw at the last close(): see TransportClose
  sendLog,       \* <<[t, p]>>: send(p) invocations that reached socket t
  lastSend,      \* outcome of the last send(): "none", "noop", "sent", "threw"
  nSends,        \* send() calls so far
  listeners,     \* Signal: connected listeners
  nextListener,  \* listeners connected so far
  observed,      \* observed[l]: payloads listener l has been called with
  emitted,       \* Stream: payloads accepted into the iterable view
  busStopped,    \* Stream: stop() has run
  cState,        \* the async iterator: "idle", "active" or "ended"
  cursor,        \* the iterator's offset in emitted
  consumed,      \* payloads the iterator has yielded
  raised,        \* message events raised so far: the socket, whether it was
                 \* this.socket then, whether it had raised close by then
  staleCloses,   \* close events raised so far by sockets already superseded
  disposeCalls,  \* dispose() calls so far (owner's and the hook's)
  regAtDispose,  \* listeners connected when dispose() first ran
  subAt,         \* subAt[l]: message events raised before listener l connected
  events         \* external events so far

vars == <<onmessage, socket, pollDisposed, tick, nAttempts, promise, factoryCalls,
          nThrows, created, slots, closeCalls, closeFired, closeSnap, sendLog,
          lastSend, nSends, listeners, nextListener, observed, emitted, busStopped,
          cState, cursor, consumed, raised, staleCloses, disposeCalls,
          regAtDispose, subAt, events>>

\* The state the handlers read and write, as one record.
Cur ==
  [onmessage |-> onmessage, socket |-> socket, pollDisposed |-> pollDisposed,
   tick |-> tick, nAttempts |-> nAttempts, promise |-> promise,
   factoryCalls |-> factoryCalls, nThrows |-> nThrows, created |-> created,
   slots |-> slots, closeCalls |-> closeCalls, closeFired |-> closeFired,
   closeSnap |-> closeSnap, sendLog |-> sendLog, lastSend |-> lastSend,
   listeners |-> listeners, observed |-> observed, emitted |-> emitted,
   busStopped |-> busStopped, cState |-> cState, cursor |-> cursor,
   consumed |-> consumed, disposeCalls |-> disposeCalls]

Install(s) ==
  /\ onmessage' = s.onmessage
  /\ socket' = s.socket
  /\ pollDisposed' = s.pollDisposed
  /\ tick' = s.tick
  /\ nAttempts' = s.nAttempts
  /\ promise' = s.promise
  /\ factoryCalls' = s.factoryCalls
  /\ nThrows' = s.nThrows
  /\ created' = s.created
  /\ slots' = s.slots
  /\ closeCalls' = s.closeCalls
  /\ closeFired' = s.closeFired
  /\ closeSnap' = s.closeSnap
  /\ sendLog' = s.sendLog
  /\ lastSend' = s.lastSend
  /\ listeners' = s.listeners
  /\ observed' = s.observed
  /\ emitted' = s.emitted
  /\ busStopped' = s.busStopped
  /\ cState' = s.cState
  /\ cursor' = s.cursor
  /\ consumed' = s.consumed
  /\ disposeCalls' = s.disposeCalls

NoSnap == [t |-> 0, pollDisposed |-> FALSE, slotsNull |-> FALSE, ref |-> 0]

\* new SocketStream(sender, options): the Poll is constructed and will start,
\* no socket yet; options.onmessage?.(this) || null is the hook or null.
Init ==
  /\ onmessage \in {"null", "emit", "dispose"}
  /\ socket = 0
  /\ pollDisposed = FALSE
  /\ tick = "scheduled"
  /\ nAttempts = 0
  /\ promise = [k \in Attempts |-> "none"]
  /\ factoryCalls = 0
  /\ nThrows = 0
  /\ created = [t \in Sockets |-> FALSE]
  /\ slots = [t \in Sockets |-> NullSlots]
  /\ closeCalls = [t \in Sockets |-> 0]
  /\ closeFired = [t \in Sockets |-> FALSE]
  /\ closeSnap = NoSnap
  /\ sendLog = <<>>
  /\ lastSend = "none"
  /\ nSends = 0
  /\ listeners = {}
  /\ nextListener = 0
  /\ observed = [l \in ListenerIds |-> <<>>]
  /\ emitted = <<>>
  /\ busStopped = FALSE
  /\ cState = "idle"
  /\ cursor = 0
  /\ consumed = <<>>
  /\ raised = <<>>
  /\ staleCloses = 0
  /\ disposeCalls = 0
  /\ regAtDispose = {}
  /\ subAt = [l \in ListenerIds |-> 0]
  /\ events = 0

----
\* get isDisposed(): this.connection.isDisposed
IsDisposed(s) == s.pollDisposed

\* Poll.dispose(): the Poller stops permanently; idempotent.
PollDispose(s) == [s EXCEPT !.pollDisposed = TRUE]

\* reject(new Error(...)) of attempt k's promise: settles it once.
Reject(s, k) ==
  IF s.promise[k] = "pending" THEN [s EXCEPT !.promise[k] = "rejected"] ELSE s

\* A close handler that also clears this.socket when the socket that closed is
\* the current one.
CloseEventClearsRef(s, t) ==
  LET s1 == [s EXCEPT !.closeFired[t] = TRUE,
                      !.socket = IF s.slots[t].onclose # 0 /\ @ = t THEN 0 ELSE @]
      k == s.slots[t].onclose
  IN IF k = 0 THEN s1 ELSE Reject(s1, k)

\* A close handler that rejects the promise of the attempt that owns this.socket
\* (reject kept on the stream) instead of the one it was created in.
CloseEventRejectsCurrent(s, t) ==
  LET s1 == [s EXCEPT !.closeFired[t] = TRUE]
  IN IF s.slots[t].onclose = 0 \/ s.socket = 0 THEN s1 ELSE Reject(s1, s.socket)

\* Socket t raises its close event: whatever is in its onclose slot runs.
CloseEvent(s, t) ==
  LET s1 == [s EXCEPT !.closeFired[t] = TRUE]
      k == s.slots[t].onclose
  IN IF k = 0 THEN s1 ELSE Reject(s1, k)

\* socket.close() on socket t.  The socket is a black box: it may raise its
\* close event before close() returns (sync) or later, or never.  closeSnap
\* records what the socket can see of the stream when close() is entered.
TransportClose(s, t, sync) ==
  LET s1 == [s EXCEPT !.closeCalls[t] = @ + 1,
                      !.closeSnap = [t |-> t, pollDisposed |-> s.pollDisposed,
                                     slotsNull |-> (s.slots[t] = NullSlots),
                                     ref |-> s.socket]]
  IN IF sync THEN CloseEvent(s1, t) ELSE s1

\* Signal.clearData(this): every listener is disconnected.
ClearData(s) == [s EXCEPT !.listeners = {}]

\* Stream.stop(): the iterable view ends and accepts no further emission.
StreamStop(s) ==
  [s EXCEPT !.busStopped = TRUE,
            !.cState = IF s.cState = "active" THEN "ended" ELSE s.cState]

\* Stream.emit(p): into the iterable view, then to every connected listener.
Emit(s, p) ==
  [s EXCEPT !.emitted = IF s.busStopped THEN @ ELSE Append(@, p),
            !.observed = [l \in ListenerIds |->
                            IF l \in s.listeners THEN Append(@[l], p) ELSE @[l]]]

\* dispose() that does not clear the socket's four slots (lines 47-50 missing).
DisposeKeepSlots(s, sync) ==
  LET t == s.socket
      s1 == PollDispose(s)
      s2 == IF t # 0 THEN TransportClose(s1, t, sync) ELSE s1
      s5 == StreamStop(ClearData([s2 EXCEPT !.socket = 0]))
  IN [s5 EXCEPT !.disposeCalls = @ + 1]

\* dispose() that leaves this.socket set (line 53 missing).
DisposeKeepRef(s, sync) ==
  LET t == s.socket
      s1 == PollDispose(s)
      s2 == IF t # 0
              THEN TransportClose([s1 EXCEPT !.slots[t] = NullSlots], t, sync)
              ELSE s1
      s5 == StreamStop(ClearData(s2))
  IN [s5 EXCEPT !.disposeCalls = @ + 1]

\* dispose() that leaves the Poller running (line 45 missing).
DisposeKeepPoll(s, sync) ==
  LET t == s.socket
      s2 == IF t # 0
              THEN TransportClose([s EXCEPT !.slots[t] = NullSlots], t, sync)
              ELSE s
      s5 == StreamStop(ClearData([s2 EXCEPT !.socket = 0]))
  IN [s5 EXCEPT !.disposeCalls = @ + 1]

\* dispose() that closes the socket before it clears the slots (line 51 first).
DisposeCloseFirst(s, sync) ==
  LET t == s.socket
      s1 == PollDispose(s)
      s2 == IF t # 0
              THEN [TransportClose(s1, t, sync) EXCEPT !.slots[t] = NullSlots]
              ELSE s1
      s5 == StreamStop(ClearData([s2 EXCEPT !.socket = 0]))
  IN [s5 EXCEPT !.disposeCalls = @ + 1]

\* dispose() that leaves the signal and the iterable view alone (lines 54-55 missing).
DisposeKeepBus(s, sync) ==
  LET t == s.socket
      s1 == PollDispose(s)
      s2 == IF t # 0
              THEN TransportClose([s1 EXCEPT !.slots[t] = NullSlots], t, sync)
              ELSE s1
  IN [s2 EXCEPT !.socket = 0, !.disposeCalls = @ + 1]

\* dispose(), lines 43-56, statement by statement.
Dispose(s, sync) ==
  LET t == s.socket                                  \* const { connection, socket } = this
      s1 == PollDispose(s)                           \* connection.dispose()
      s2 == IF t # 0                                 \* if (socket) {
              THEN TransportClose(                   \*   socket.close() after
                     [s1 EXCEPT !.slots[t] = NullSlots], t, sync)  \* the four slots = null
              ELSE s1                                \* }
      s3 == [s2 EXCEPT !.socket = 0]                 \* this.socket = null
      s4 == ClearData(s3)                            \* Signal.clearData(this)
      s5 == StreamStop(s4)                           \* super.stop()
  IN [s5 EXCEPT !.disposeCalls = @ + 1]

\* send(data) written with optional chaining (this.socket?.send(data)): on a
\* null this.socket it returns normally.
SendOptional(s, p) ==
  IF IsDisposed(s) \/ s.socket = 0 THEN [s EXCEPT !.lastSend = "noop"]
  ELSE [s EXCEPT !.sendLog = Append(@, [t |-> s.socket, p |-> p]),
                 !.lastSend = "sent"]

\* send(data) without the isDisposed test (lines 64-66 missing).
SendUnguarded(s, p) ==
  IF s.socket = 0 THEN [s EXCEPT !.lastSend = "threw"]
  ELSE [s EXCEPT !.sendLog = Append(@, [t |-> s.socket, p |-> p]),
                 !.lastSend = "sent"]

\* send(data): this.socket!.send(data) on a null this.socket is a TypeError.
Send(s, p) ==
  IF IsDisposed(s) THEN [s EXCEPT !.lastSend = "noop"]
  ELSE IF s.socket = 0 THEN [s EXCEPT !.lastSend = "threw"]
  ELSE [s EXCEPT !.sendLog = Append(@, [t |-> s.socket, p |-> p]),
                 !.lastSend = "sent"]

\* reconnect() that throws on a disposed stream instead of returning.
ReconnectThrowDisposed(s, k, outcome) ==
  IF IsDisposed(s) THEN [s EXCEPT !.promise[k] = "rejected"]
  ELSE IF outcome = "throw"
    THEN [s EXCEPT !.factoryCalls = @ + 1, !.nThrows = @ + 1,
                   !.promise[k] = "rejected"]
  ELSE [s EXCEPT !.factoryCalls = @ + 1,
                 !.promise[k] = "pending",
                 !.created[k] = TRUE,
                 !.socket = k,
                 !.slots[k] = [onopen |-> "ext", onclose |-> k, onerror |-> "ext",
                               onmessage |-> s.onmessage]]

\* reconnect() that returns after installing the handlers instead of returning
\* the promise that only the close handler settles: its promise is resolved.
ReconnectReturns(s, k, outcome) ==
  IF IsDisposed(s) THEN [s EXCEPT !.promise[k] = "resolved"]
  ELSE IF outcome = "throw"
    THEN [s EXCEPT !.factoryCalls = @ + 1, !.nThrows = @ + 1,
                   !.promise[k] = "rejected"]
  ELSE [s EXCEPT !.factoryCalls = @ + 1,
                 !.promise[k] = "resolved",
                 !.created[k] = TRUE,
                 !.socket = k,
                 !.slots[k] = [onopen |-> "ext", onclose |-> 0, onerror |-> "ext",
                               onmessage |-> s.onmessage]]

\* reconnect() that catches the throw of connector() and leaves the promise
\* unsettled.
ReconnectSwallowThrow(s, k, outcome) ==
  IF IsDisposed(s) THEN [s EXCEPT !.promise[k] = "resolved"]
  ELSE IF outcome = "throw"
    THEN [s EXCEPT !.factoryCalls = @ + 1, !.nThrows = @ + 1,
                   !.promise[k] = "pending"]
  ELSE [s EXCEPT !.factoryCalls = @ + 1,
                 !.promise[k] = "pending",
                 !.created[k] = TRUE,
                 !.socket = k,
                 !.slots[k] = [onopen |-> "ext", onclose |-> k, onerror |-> "ext",
                               onmessage |-> s.onmessage]]

\* reconnect() without the isDisposed test (lines 93-95 missing).
ReconnectUnguarded(s, k, outcome) ==
  IF outcome = "throw"
    THEN [s EXCEPT !.factoryCalls = @ + 1, !.nThrows = @ + 1,
                   !.promise[k] = "rejected"]
  ELSE [s EXCEPT !.factoryCalls = @ + 1,
                 !.promise[k] = "pending",
                 !.created[k] = TRUE,
                 !.socket = k,
                 !.slots[k] = [onopen |-> "ext", onclose |-> k, onerror |-> "ext",
                               onmessage |-> s.onmessage]]

\* reconnect() that calls reject at once instead of installing it as the
\* close handler (onclose = reject(...) for onclose = () => reject(...)).
ReconnectRejectNow(s, k, outcome) ==
  IF IsDisposed(s) THEN [s EXCEPT !.promise[k] = "resolved"]
  ELSE IF outcome = "throw"
    THEN [s EXCEPT !.factoryCalls = @ + 1, !.nThrows = @ + 1,
                   !.promise[k] = "rejected"]
  ELSE [s EXCEPT !.factoryCalls = @ + 1,
                 !.promise[k] = "rejected",
                 !.created[k] = TRUE,
                 !.socket = k,
                 !.slots[k] = [onopen |-> "ext", onclose |-> 0, onerror |-> "ext",
                               onmessage |-> s.onmessage]]

\* reconnect() that installs no close handler (line 98 missing).
ReconnectNoOnclose(s, k, outcome) ==
  IF IsDisposed(s) THEN [s EXCEPT !.promise[k] = "resolved"]
  ELSE IF outcome = "throw"
    THEN [s EXCEPT !.factoryCalls = @ + 1, !.nThrows = @ + 1,
                   !.promise[k] = "rejected"]
  ELSE [s EXCEPT !.factoryCalls = @ + 1,
                 !.promise[k] = "pending",
                 !.created[k] = TRUE,
                 !.socket = k,
                 !.slots[k] = [onopen |-> "ext", onclose |-> 0, onerror |-> "ext",
                               onmessage |-> s.onmessage]]

\* reconnect() that installs the message handler on the first socket only.
ReconnectNoOnmessage(s, k, outcome) ==
  IF IsDisposed(s) THEN [s EXCEPT !.promise[k] = "resolved"]
  ELSE IF outcome = "throw"
    THEN [s EXCEPT !.factoryCalls = @ + 1, !.nThrows = @ + 1,
                   !.promise[k] = "rejected"]
  ELSE [s EXCEPT !.factoryCalls = @ + 1,
                 !.promise[k] = "pending",
                 !.created[k] = TRUE,
                 !.socket = k,
                 !.slots[k] = [onopen |-> "ext", onclose |-> k, onerror |-> "ext",
                               onmessage |-> IF s.socket = 0 THEN s.onmessage
                                             ELSE "null"]]

\* reconnect(), lines 92-101, as attempt k.  outcome is what connector() does:
\* "ok" returns a new socket, on which the connector has set its own onopen and
\* onerror handlers ("ext"); "throw" throws inside the promise executor, which
\* rejects the promise and leaves this.socket as it was.  On a disposed stream
\* the async function returns at once: its promise is resolved.  Otherwise the
\* new socket replaces this.socket (the old one is left as it is) and gets
\* onclose = () => reject(...) of this attempt and onmessage = this.onmessage.
Reconnect(s, k, outcome) ==
  IF IsDisposed(s) THEN [s EXCEPT !.promise[k] = "resolved"]
  ELSE IF outcome = "throw"
    THEN [s EXCEPT !.factoryCalls = @ + 1, !.nThrows = @ + 1,
                   !.promise[k] = "rejected"]
  ELSE [s EXCEPT !.factoryCalls = @ + 1,
                 !.promise[k] = "pending",
                 !.created[k] = TRUE,
                 !.socket = k,
                 !.slots[k] = [onopen |-> "ext", onclose |-> k, onerror |-> "ext",
                               onmessage |-> s.onmessage]]

\* The handler in a socket's onmessage slot, called with payload p.
Hook(s, h, p, sync) ==
  CASE h = "emit" -> Emit(s, p)
    [] h = "dispose" -> Dispose(Emit(s, p), sync)
    [] OTHER -> s

----
\* Socket t has been superseded: the connector has returned a later one.
Superseded(t) == created[t] /\ \E u \in Sockets : u > t /\ created[u]

\* An external event is counted against the bound.
Event == events < MaxEvents /\ events' = events + 1

\* Poller: the scheduled tick invokes the factory () => this.reconnect().
\* A tick scheduled before the Poller was disposed may still run.
PollExecute ==
  /\ tick = "scheduled"
  /\ nAttempts < MaxEvents + 2
  /\ \E outcome \in {"ok", "throw"} :
       /\ IF outcome = "throw" THEN ~IsDisposed(Cur) /\ Event
                               ELSE UNCHANGED events
       /\ Install(Reconnect([Cur EXCEPT !.nAttempts = @ + 1, !.tick = "inflight"],
                            nAttempts + 1, outcome))
  /\ UNCHANGED <<nSends, nextListener, raised, staleCloses, regAtDispose, subAt>>

\* Poller: the attempt's promise has settled; unless disposed, schedule a retry.
PollSettle ==
  /\ tick = "inflight"
  /\ promise[nAttempts] \in {"rejected", "resolved"}
  /\ Install([Cur EXCEPT !.tick = IF pollDisposed THEN "idle" ELSE "scheduled"])
  /\ UNCHANGED <<nSends, nextListener, raised, staleCloses, regAtDispose, subAt, events>>

\* The owner calls dispose().
CallDispose ==
  /\ Event
  /\ \E sync \in BOOLEAN :
       /\ sync => socket # 0
       /\ Install(Dispose(Cur, sync))
  /\ regAtDispose' = IF disposeCalls = 0 THEN listeners ELSE regAtDispose
  /\ UNCHANGED <<nSends, nextListener, raised, staleCloses, subAt>>

\* The owner calls send(p); the payload of the n-th call is n.
CallSend ==
  /\ Event
  /\ Install(Send(Cur, nSends + 1))
  /\ nSends' = nSends + 1
  /\ UNCHANGED <<nextListener, raised, staleCloses, regAtDispose, subAt>>

\* A socket the connector returned raises its close event.
FireClose ==
  /\ Event
  /\ \E t \in Sockets :
       /\ created[t]
       /\ Install(CloseEvent(Cur, t))
       /\ staleCloses' = IF Superseded(t) THEN staleCloses + 1 ELSE staleCloses
  /\ UNCHANGED <<nSends, nextListener, raised, regAtDispose, subAt>>

\* A socket the connector returned raises a message event; the payload of the
\* n-th message event is n, so that every message is told from every other.
FireMessage ==
  /\ Event
  /\ \E t \in Sockets, sync \in BOOLEAN :
       /\ created[t]
       /\ sync => slots[t].onmessage = "dispose" /\ socket # 0
       /\ Install(Hook(Cur, slots[t].onmessage, Len(raised) + 1, sync))
       /\ raised' = Append(raised, [t |-> t, cur |-> (socket = t),
                                     closed |-> closeFired[t]])
       /\ regAtDispose' = IF slots[t].onmessage = "dispose" /\ disposeCalls = 0
                            THEN listeners ELSE regAtDispose
  /\ UNCHANGED <<nSends, nextListener, staleCloses, subAt>>

\* A listener connects to the signal.
Subscribe ==
  /\ Event
  /\ Install([Cur EXCEPT !.listeners = @ \cup {nextListener + 1}])
  /\ nextListener' = nextListener + 1
  /\ subAt' = [subAt EXCEPT ![nextListener + 1] = Len(raised)]
  /\ UNCHANGED <<nSends, raised, staleCloses, regAtDispose>>

\* A listener disconnects.
Unsubscribe ==
  /\ Event
  /\ \E l \in listeners : Install([Cur EXCEPT !.listeners = @ \ {l}])
  /\ UNCHANGED <<nSends, nextListener, raised, staleCloses, regAtDispose, subAt>>

\* A consumer starts iterating the stream: it joins at the current offset.
StartIter ==
  /\ Event
  /\ cState = "idle"
  /\ Install([Cur EXCEPT !.cState = IF busStopped THEN "ended" ELSE "active",
                         !.cursor = Len(emitted)])
  /\ UNCHANGED <<nSends, nextListener, raised, staleCloses, regAtDispose, subAt>>

\* The iterating consumer is resumed with the next emitted value.
Pull ==
  /\ cState = "active"
  /\ cursor < Len(emitted)
  /\ Install([Cur EXCEPT !.cursor = @ + 1,
                         !.consumed = Append(@, emitted[cursor + 1])])
  /\ UNCHANGED <<nSends, nextListener, raised, staleCloses, regAtDispose, subAt, events>>

Next ==
  \/ PollExecute
  \/ PollSettle
  \/ CallDispose
  \/ CallSend
  \/ FireClose
  \/ FireMessage
  \/ Subscribe
  \/ Unsubscribe
  \/ StartIter
  \/ Pull

Spec == Init /\ [][Next]_vars

\* The Poller's timers fire and the settled promise's callbacks run: a scheduled
\* tick is eventually executed and a settled attempt is eventually noticed.  A
\* throw of the connector is an external event, so within the bound the
\* connector eventually succeeds.
LiveSpec == Spec /\ WF_vars(PollExecute) /\ WF_vars(PollSettle)

----
\* Steps of the model that are a call of send(), of dispose(), of connector().
SendStep == nSends' = nSends + 1
DisposeStep == disposeCalls' = disposeCalls + 1
FactoryStep == factoryCalls' # factoryCalls

\* C1: once dispose() has been called, a call of send() returns normally (no
\* exception) and invokes neither send() nor close() on any socket.
C1_SendAfterDispose ==
  [][(disposeCalls > 0 /\ SendStep) =>
       (lastSend' = "noop" /\ sendLog' = sendLog /\ closeCalls' = closeCalls)]_vars

\* C1 witness: send() was called after dispose() on a stream that had a socket.
C1_Witness == disposeCalls > 0 /\ lastSend = "noop" /\ created[1]

\* What dispose() leaves behind, without the count of its calls.
Effects(s) == [s EXCEPT !.disposeCalls = 0]

\* C2: in every reachable state, dispose() called twice leaves the stream, the
\* Poller, every socket and the bus as one call leaves them, and the second
\* call calls close() on no socket.
C2_DisposeIdempotent ==
  \A a, b \in BOOLEAN :
    LET once == Dispose(Cur, a)
        twice == Dispose(once, b)
    IN /\ Effects(twice) = Effects(once)
       /\ twice.closeCalls = once.closeCalls

\* C2 witness: dispose() has run twice on a stream whose socket it closed once.
C2_Witness == disposeCalls = 2 /\ \E t \in Sockets : closeCalls[t] = 1

\* A socket is live: the connector returned it, the stream has not closed it and
\* it has not raised close.
Live(t) == created[t] /\ closeCalls[t] = 0 /\ ~closeFired[t]

\* C3: at most one socket is live; once dispose() has returned, this.socket is
\* null and the Poller is disposed.
C3_OneLiveNoneAfterDispose ==
  /\ Cardinality({t \in Sockets : Live(t)}) <= 1
  /\ disposeCalls > 0 => (socket = 0 /\ pollDisposed)

\* C3 witness: dispose() ran on the second socket, after the first had closed.
C3_Witness == disposeCalls > 0 /\ created[2] /\ closeCalls[2] = 1

\* C4: connector() is called one socket at a time, only while no attempt is
\* pending, and, when a socket is current, only after that socket raised close.
C4_OneTransportPerClose ==
  [][FactoryStep =>
       /\ factoryCalls' = factoryCalls + 1
       /\ \A k \in Attempts : promise[k] # "pending"
       /\ socket # 0 => closeFired[socket]
       /\ Cardinality({t \in Sockets : created'[t]})
            <= 1 + Cardinality({t \in Sockets : closeFired[t]})]_vars

\* C4 witness: the first socket closed and the Poller's retry created a second.
C4_Witness == ~pollDisposed /\ created[1] /\ closeFired[1] /\ socket = 2

\* A message event: the socket that raised it and its payload.
MsgStep == Len(raised') = Len(raised) + 1
MsgFrom == raised'[Len(raised')].t
MsgPayload == Len(raised')

\* Connected: this.socket is open, its attempt is pending and it carries the
\* close handler of its own attempt and the stream's message handler.
Connected ==
  /\ socket # 0
  /\ ~closeFired[socket]
  /\ promise[socket] = "pending"
  /\ slots[socket].onclose = socket
  /\ slots[socket].onmessage = onmessage

\* The current socket has raised close on a stream that is not disposed.
InGap == ~pollDisposed /\ socket # 0 /\ closeFired[socket]

\* C5: under a fair Poller and a connector that eventually succeeds, after the
\* current socket raises close the stream is eventually Connected again (or has
\* been disposed), and a message raised on a reconnected socket whose handler
\* emits is observed by every connected listener.
C5_EventuallyReconnected ==
  /\ [](InGap => <>(Connected \/ pollDisposed))
  /\ [][(MsgStep /\ MsgFrom = socket /\ socket > 1 /\ Connected /\ onmessage # "null")
          => \A l \in listeners : observed'[l] = Append(observed[l], MsgPayload)]_vars

\* C5 witness: after a close the stream is Connected on a later socket, and the
\* listener has observed the message that socket raised last.
C5_Witness ==
  /\ Connected /\ socket > 1 /\ closeFired[1]
  /\ raised # <<>> /\ raised[Len(raised)].t = socket
  /\ 1 \in listeners /\ observed[1] # <<>>
  /\ observed[1][Len(observed[1])] = Len(raised)

\* C6: on a stream that is not disposed and whose hook emits, when every message
\* event so far was raised on the socket that was this.socket, each connected
\* listener has observed exactly the messages raised since it connected, in the
\* order raised, each once (all N of them for a listener connected at the start).
C6_InOrderNoDropNoDup ==
  (onmessage = "emit" /\ ~pollDisposed /\ \A i \in 1..Len(raised) : raised[i].cur)
    => \A l \in listeners :
         observed[l] = [i \in 1..(Len(raised) - subAt[l]) |-> subAt[l] + i]

\* C6 witness: a listener connected at the start has observed one message from
\* the first socket and one from the socket that replaced it.
C6_Witness ==
  /\ onmessage = "emit" /\ ~pollDisposed /\ 1 \in listeners /\ subAt[1] = 0
  /\ Len(raised) = 2 /\ raised[1].cur /\ raised[2].cur
  /\ raised[1].t # raised[2].t
  /\ observed[1] = <<1, 2>>

\* C7: a message event raised on a socket that has raised close and is no longer
\* this.socket is not forwarded: the bus and the listeners see nothing of it.
C7_NoForwardAfterClose ==
  [][(MsgStep /\ closeFired[MsgFrom] /\ MsgFrom # socket)
       => (observed' = observed /\ emitted' = emitted)]_vars

\* C8: once dispose() has been called the stream stays disposed, connector() is
\* not called again, no socket is created and no attempt becomes pending,
\* whatever close events and Poller ticks follow.
C8_DisposalTerminal ==
  [][disposeCalls > 0 =>
       /\ pollDisposed /\ pollDisposed'
       /\ factoryCalls' = factoryCalls
       /\ created' = created
       /\ \A k \in Attempts : promise'[k] = "pending" => promise[k] = "pending"]_vars

\* C8 witness: after dispose() a Poller tick ran reconnect(), and a socket the
\* stream had created has raised close.
C8_Witness ==
  /\ disposeCalls > 0
  /\ \E k \in Attempts : promise[k] = "resolved"
  /\ \E t \in Sockets : created[t] /\ closeFired[t]

\* C9: dispose() on a stream with a socket calls close() on it exactly once, and
\* at that call the Poller is already disposed, the four slots are already null
\* and this.socket is still set; afterwards this.socket is null.  No attempt's
\* promise is failed by the step, even when the socket raises close inside close().
C9_DisposeOrder ==
  [][(DisposeStep /\ socket # 0) =>
       /\ closeCalls' = [closeCalls EXCEPT ![socket] = @ + 1]
       /\ closeSnap' = [t |-> socket, pollDisposed |-> TRUE, slotsNull |-> TRUE,
                         ref |-> socket]
       /\ slots'[socket] = NullSlots
       /\ socket' = 0
       /\ promise' = promise]_vars

\* C9 witness: dispose() closed a socket, that socket has raised close, and its
\* attempt's promise is still pending.
C9_Witness ==
  /\ disposeCalls > 0 /\ closeSnap.t # 0
  /\ closeFired[closeSnap.t]
  /\ promise[closeSnap.t] = "pending"

LatestCreated ==
  IF \E t \in Sockets : created[t]
    THEN CHOOSE t \in Sockets : created[t] /\ \A u \in Sockets : created[u] => u <= t
    ELSE 0

\* A call of send() that reached a socket, and the socket it reached.
SentStep == SendStep /\ Len(sendLog') = Len(sendLog) + 1
SentTo == sendLog'[Len(sendLog')].t

\* C11: a send() on a stream that is not disposed that reaches a socket reaches
\* the socket the connector returned last, and that socket has not raised close.
C11_SendReachesLive ==
  [][(SentStep /\ ~pollDisposed)
       => (SentTo = LatestCreated /\ ~closeFired[SentTo])]_vars

\* C12: send() on a stream that is not disposed and whose this.socket is null
\* throws to the caller and changes nothing else; and the only payload a socket
\* ever receives is that of the send() call being made, handed to this.socket, so
\* the payload of a call that threw is never delivered to a later socket.
C12_SendOnNullThrows ==
  /\ [][(SendStep /\ ~pollDisposed /\ socket = 0)
          => Cur' = [Cur EXCEPT !.lastSend = "threw"]]_vars
  /\ [][sendLog' # sendLog
          => /\ SendStep
             /\ sendLog' = Append(sendLog, [t |-> socket, p |-> nSends'])]_vars

\* C12 witness: the first send() found no socket and threw; the second reached
\* the socket created since, which has received the second payload only.
C12_Witness ==
  /\ ~pollDisposed /\ nSends = 2
  /\ sendLog = <<[t |-> 1, p |-> 2]>>
  /\ lastSend = "sent"

\* A message event on this.socket whose handler calls dispose().
ReentrantDisposeStep ==
  MsgStep /\ MsgFrom = socket /\ slots[socket].onmessage = "dispose"

\* C13: dispose() called by the message handler running for a message on
\* this.socket leaves the stream as dispose() called right after a handler that
\* only emits: Poller disposed, the socket's four slots null, close() called on
\* it once, this.socket null, no promise failed.  From then on a message event
\* on that socket runs no handler, the iterable view and the listeners connected
\* at the disposal observe nothing more, and connector() is not called again.
C13_ReentrantDispose ==
  /\ [][ReentrantDisposeStep =>
          /\ \E sync \in BOOLEAN : Cur' = Dispose(Emit(Cur, MsgPayload), sync)
          /\ pollDisposed' /\ socket' = 0
          /\ slots'[socket] = NullSlots
          /\ closeCalls' = [closeCalls EXCEPT ![socket] = @ + 1]
          /\ promise' = promise]_vars
  /\ [][disposeCalls > 0 =>
          /\ (MsgStep /\ MsgFrom = closeSnap.t) => Cur' = Cur
          /\ emitted' = emitted
          /\ \A l \in regAtDispose : observed'[l] = observed[l]
          /\ factoryCalls' = factoryCalls /\ created' = created]_vars

\* C13 witness: the only external events so far are two message events on the
\* first socket; the handler of the first one disposed the stream, the listener
\* set was taken then, and since then the Poller has noticed nothing to retry.
C13_Witness ==
  /\ events = 2 /\ Len(raised) = 2
  /\ raised[1].t = 1 /\ raised[1].cur /\ raised[2].t = 1
  /\ disposeCalls = 1 /\ closeCalls[1] = 1 /\ closeSnap.t = 1
  /\ socket = 0 /\ pollDisposed /\ slots[1] = NullSlots
  /\ promise[1] = "pending" /\ factoryCalls = 1

\* A step in which the Poller invokes reconnect().
AttemptStep == nAttempts' = nAttempts + 1

\* C14: reconnect() invoked on a disposed stream returns a resolved promise and
\* does nothing else: connector() is not called, this.socket is not written, no
\* slot of any socket is written; and the Poller, on a resolved promise,
\* schedules no retry.
C14_ReconnectOnDisposed ==
  /\ [][(AttemptStep /\ pollDisposed) =>
          Cur' = [Cur EXCEPT !.nAttempts = @ + 1, !.tick = "inflight",
                             !.promise[nAttempts + 1] = "resolved"]]_vars
  /\ [][(nAttempts > 0 /\ promise[nAttempts] = "resolved") =>
          (tick' # "scheduled" /\ ~AttemptStep)]_vars

\* C14 witness: the tick scheduled before dispose() ran reconnect() after it:
\* the attempt is resolved, connector() was never called, the Poller is idle.
C14_Witness ==
  /\ disposeCalls > 0 /\ nAttempts = 1 /\ promise[1] = "resolved"
  /\ factoryCalls = 0 /\ socket = 0 /\ tick = "idle"
  /\ \A t \in Sockets : ~created[t] /\ slots[t] = NullSlots

\* Attempt k's promise becomes resolved, becomes rejected, in this step.
Resolves(k) == promise[k] # "resolved" /\ promise'[k] = "resolved"
Fails(k) == promise[k] # "rejected" /\ promise'[k] = "rejected"

\* Socket k raises close in this step while it carries attempt k's close handler.
OwnCloseHandlerRuns(k) ==
  created[k] /\ slots[k].onclose = k /\ closeFired'[k] /\ ~AttemptStep

\* Attempt k is started in this step and connector() throws in it.
ThrowsIn(k) ==
  AttemptStep /\ k = nAttempts' /\ nThrows' = nThrows + 1 /\ ~created'[k]

\* An attempt's promise is resolved only when the attempt starts on a disposed
\* stream, and is pending as long as the attempt's socket has not raised close.
NeverSucceedsPendingWhileOpen ==
  /\ [][\A k \in Attempts : Resolves(k) => (AttemptStep /\ pollDisposed)]_vars
  /\ [](\A k \in Attempts : (created[k] /\ ~closeFired[k]) => promise[k] = "pending")

\* C15 (as stated): an attempt started on a stream that is not disposed never
\* resolves, is pending while its socket is open, and fails only when the close
\* handler installed on its own socket is invoked.
C15_FailsOnlyByOwnClose ==
  /\ NeverSucceedsPendingWhileOpen
  /\ [][\A k \in Attempts : Fails(k) => OwnCloseHandlerRuns(k)]_vars

\* C15 (amended): as above, but the promise also fails when connector() throws
\* in the attempt, which then has no socket; it fails in no other way.
C15_FailsByOwnCloseOrThrow ==
  /\ NeverSucceedsPendingWhileOpen
  /\ [][\A k \in Attempts :
          Fails(k) => (OwnCloseHandlerRuns(k) \/ ThrowsIn(k))]_vars

\* C15 witness: attempt 1 failed when its socket raised close, attempt 2 failed
\* on a throw of connector() and has no socket, attempt 3 is pending on its open
\* socket.
C15_Witness ==
  /\ ~pollDisposed
  /\ promise[1] = "rejected" /\ created[1] /\ closeFired[1]
  /\ promise[2] = "rejected" /\ ~created[2]
  /\ promise[3] = "pending" /\ created[3] /\ ~closeFired[3]

\* The last attempt failed on a throw of connector() and the stream is not
\* disposed.
ThrownLast ==
  /\ nAttempts > 0 /\ ~pollDisposed
  /\ promise[nAttempts] = "rejected" /\ ~created[nAttempts]

\* C16: when connector() throws in an attempt on a stream that is not disposed,
\* the attempt's promise is rejected, as by a close event, and nothing else of
\* the stream changes: it is not disposed, this.socket and the outcome of the
\* caller's last send() are as they were.  The Poller then schedules a retry and,
\* unless the stream is disposed first, invokes reconnect() again.
C16_FactoryThrowRetried ==
  /\ [][\A k \in Attempts : ThrowsIn(k) =>
          /\ ~pollDisposed
          /\ Cur' = [Cur EXCEPT !.nAttempts = k, !.tick = "inflight",
                                !.factoryCalls = @ + 1, !.nThrows = @ + 1,
                                !.promise[k] = "rejected"]]_vars
  /\ [][(ThrownLast /\ tick = "inflight" /\ tick' # tick)
          => tick' = "scheduled"]_vars
  /\ (ThrownLast /\ tick = "inflight") ~> (tick = "scheduled" \/ pollDisposed)
  /\ (ThrownLast /\ tick = "scheduled") ~> (tick = "inflight" \/ pollDisposed)

\* C16 witness: connector() threw in the first attempt; the Poller retried and
\* the second attempt is pending on an open socket; the stream is not disposed.
C16_Witness ==
  /\ ~pollDisposed /\ nThrows = 1
  /\ promise[1] = "rejected" /\ ~created[1]
  /\ promise[2] = "pending" /\ created[2] /\ socket = 2
  /\ lastSend = "none"

\* C17: a superseded socket has its four slots null and is closed (the stream
\* called close() on it, or it raised close); in particular it carries neither
\* the close handler nor the message handler the stream installed.
C17_SupersededCleared ==
  \A t \in Sockets :
    Superseded(t) =>
      /\ slots[t] = NullSlots
      /\ closeCalls[t] > 0 \/ closeFired[t]

\* A close event raised in this step by a socket already superseded.
StaleCloseStep == staleCloses' = staleCloses + 1

\* C18: the close handler on socket t rejects the promise of attempt t and no
\* other; a close event raised by a superseded socket fails no promise and moves
\* the Poller to no retry; and the promise of an attempt that has a socket fails
\* only in the step in which that socket first raises close.
C18_StaleCloseHarmless ==
  /\ [](\A t \in Sockets : slots[t].onclose \in {0, t})
  /\ [][StaleCloseStep =>
          (promise' = promise /\ tick' = tick /\ factoryCalls' = factoryCalls)]_vars
  /\ [][\A k \in Attempts :
          (Fails(k) /\ created[k]) => (~closeFired[k] /\ closeFired'[k])]_vars

\* C18 witness: the first socket, superseded and still carrying its close
\* handler, has raised close again; the second attempt is still pending on its
\* open socket and the Poller is waiting on it.
C18_Witness ==
  /\ staleCloses > 0 /\ slots[1].onclose = 1
  /\ ~pollDisposed /\ socket = 2 /\ ~closeFired[2]
  /\ promise[2] = "pending" /\ tick = "inflight"

\* C19: on a stream that is not disposed this.socket is the socket connector()
\* returned last, or null when it has returned none; it is written only in a
\* step in which connector() returns a new socket: a close event leaves it as it
\* is, and so does a connector() call that throws.  So after the current socket
\* raised close, and until connector() next returns, this.socket is that closed
\* socket.
C19_RefIsLatestCreated ==
  /\ [](~pollDisposed => socket = LatestCreated)
  /\ [][(~pollDisposed' /\ socket' # socket)
          => (FactoryStep /\ ~created[socket'] /\ created'[socket'])]_vars
  /\ [][\A k \in Attempts : ThrowsIn(k) => socket' = socket]_vars
  /\ [][(\E t \in Sockets : ~closeFired[t] /\ closeFired'[t]) /\ ~pollDisposed'
          => socket' = socket]_vars

\* C19 witness: the first socket raised close and connector() threw in the
\* retry; this.socket is still the first socket, which is closed.
C19_Witness ==
  /\ ~pollDisposed /\ socket = 1 /\ closeFired[1]
  /\ nAttempts = 2 /\ promise[2] = "rejected" /\ ~created[2] /\ nThrows = 1

====
